---- MODULE Spec2Model ----
(***************************************************************************)
(* Model of the element/view tree (uielement.go) and of the router with    *)
(* its trie of router nodes (router file: Router, rnode, NavHistory).      *)
(*                                                                         *)
(* Go strings are modelled as sequences of one-character strings, so that  *)
(* strings.TrimPrefix, strings.SplitAfter and strings.HasPrefix are        *)
(* computed and not assumed.  A Go panic is a recorded, absorbing outcome. *)
(* Slices are modelled by value: within the bounds below no slice has      *)
(* spare capacity that two holders write to.                               *)
(***************************************************************************)
EXTENDS Integers, Sequences, FiniteSets, TLC

VARIABLES
    el,         \* Element: every field of every *Element
    vn,         \* the viewNodes objects (ViewAccessPath targets), by creating element
    registered, \* the catalogue views already handed to AddView
    authorized, \* what isViewAuthorized answers, per element
    rnodes,     \* the rnode heap; rnodes[1] is Router.Routes (the root rnode)
    nav,        \* the root's navigation data and the published current route
    serving,    \* ListenAndServe has installed the route change handler
    res,        \* what the last operation returned
    panicked,   \* the Go panic that ended the program, or NoPanic
    history     \* Router.History: the NavHistory

vars == <<el, vn, registered, authorized, rnodes, nav, serving, res, panicked, history>>

----------------------------------------------------------------------------
(* Bounds of the model *)

MaxChildren == 3
MaxPath == 4
MaxVap == 3
MaxStack == 4
TrailLen == 4
MaxHandlers == 2

----------------------------------------------------------------------------
(* Strings *)

Slash == "/"
Colon == ":"

HasPrefix(s, p) ==
    /\ Len(s) >= Len(p)
    /\ SubSeq(s, 1, Len(p)) = p

TrimPrefix(s, p) ==
    IF HasPrefix(s, p) THEN SubSeq(s, Len(p) + 1, Len(s)) ELSE s

\* position of the first separator of s at or after index i, 0 if none
RECURSIVE IndexFrom(_, _, _)
IndexFrom(s, c, i) ==
    IF i > Len(s) THEN 0
    ELSE IF s[i] = c THEN i
    ELSE IndexFrom(s, c, i + 1)

\* strings.SplitAfter(s, sep) for a one-character sep: every piece but the
\* last keeps its trailing separator
RECURSIVE SplitAfter(_, _)
SplitAfter(s, c) ==
    LET k == IndexFrom(s, c, 1)
    IN  IF k = 0 THEN <<s>>
        ELSE <<SubSeq(s, 1, k)>> \o SplitAfter(SubSeq(s, k + 1, Len(s)), c)

----------------------------------------------------------------------------
(* The elements and the views the application builds *)

Nil == "nil"
NoPanic == ""
NoErr == ""

Root == "r"
Elems == {"r", "a", "b", "c", "d", "e"}
\* the elements built with a non-nil AlternateViews map
ViewOwners == {"r", "a", "b"}

ID(e) == <<e>>

VH == <<"h">>
VK == <<"k">>
VX == <<"x">>
VP == <<":", "p">>

\* owner, view name, members, and whether it is made by NewParameterizedView
Catalogue ==
    { [owner |-> "r", name |-> VH, elements |-> <<"a">>, param |-> FALSE],
      [owner |-> "r", name |-> VK, elements |-> <<"c">>, param |-> FALSE],
      [owner |-> "r", name |-> VP, elements |-> <<>>,    param |-> TRUE],
      [owner |-> "a", name |-> VX, elements |-> <<"b">>, param |-> FALSE] }

\* the application's parameterization function: the members it produces
\* for the values it accepts; every other value is rejected
ParamMembers == [v \in {<<"1">>, <<"2">>} |-> IF v = <<"1">> THEN <<"d">> ELSE <<"e">>]
ErrParam == "parameter rejected"
ErrBadParamName == "Bad view name parameter. Needs to be longer than 0 character."
ErrNoView == "View does not exist."

Parameterize(paramvalue, v) ==
    IF paramvalue \in DOMAIN ParamMembers
    THEN [err |-> NoErr, view |-> [name |-> v.name, elements |-> ParamMembers[paramvalue], param |-> TRUE]]
    ELSE [err |-> ErrParam, view |-> v]

ApplyParameter(v, paramvalue) == Parameterize(paramvalue, v)

----------------------------------------------------------------------------
(* Values and maps *)

\* Go evaluates an expression once and names its value: v is computed, then
\* F is applied to the value
Bind(v, F(_)) == CHOOSE r \in {F(y) : y \in {v}} : TRUE

EmptyMap == [x \in {} |-> x]

MapPut(m, k, v) == [x \in (DOMAIN m) \cup {k} |-> IF x = k THEN v ELSE m[x]]

MapDelete(m, k) == [x \in (DOMAIN m) \ {k} |-> m[x]]

RECURSIVE SetToSeq(_)
SetToSeq(S) ==
    IF S = {} THEN <<>>
    ELSE LET x == CHOOSE y \in S : TRUE IN <<x>> \o SetToSeq(S \ {x})

RECURSIVE Flatten(_)
Flatten(ss) == IF ss = <<>> THEN <<>> ELSE Head(ss) \o Flatten(Tail(ss))

\* the members of every view of a map of views (Go ranges over the map in
\* an unspecified order; the members' treatment does not depend on it)
AllMembers(views) ==
    Flatten([i \in 1..Cardinality(DOMAIN views) |-> views[SetToSeq(DOMAIN views)[i]].elements])

----------------------------------------------------------------------------
(* The tree: a state s is [el, vn, panic] *)

Panic(s, what) == IF s.panic = NoPanic THEN [s EXCEPT !.panic = what] ELSE s

newViewNode(e, view) == [Element |-> e, View |-> view.name]

\* viewNodes.Prepend, in place on the object ptr points to
Prepend(s, ptr, nodes) ==
    IF s.panic # NoPanic THEN s
    ELSE IF ptr = Nil THEN Panic(s, "nil pointer dereference")
    ELSE [s EXCEPT !.vn[ptr] = nodes \o s.vn[ptr]]

RECURSIVE attach(_, _, _, _)
RECURSIVE attachAll(_, _, _, _)
attach(s, parent, child, activeview) ==
    IF s.panic # NoPanic THEN s
    ELSE
    LET p  == s.el[parent]
        c  == s.el[child]
        c1 == IF activeview
              THEN [c EXCEPT !.Parent = parent, !.path = p.path \o <<parent>> \o c.path]
              ELSE c
        c2 == [c1 EXCEPT !.root = p.root, !.subtreeRoot = p.subtreeRoot]
    IN  Bind([s EXCEPT !.el[child] = c2], LAMBDA s1 :
        Bind(IF child \notin ViewOwners
             THEN [s1 EXCEPT !.el[child].ViewAccessPath = p.ViewAccessPath]
             ELSE IF p.ViewAccessPath = Nil
                  THEN Panic(s1, "nil pointer dereference")
                  ELSE Prepend(s1, c.ViewAccessPath, s1.vn[p.ViewAccessPath]), LAMBDA s2 :
        Bind(attachAll(s2, child, c.Children, TRUE), LAMBDA s3 :
        attachAll(s3, child, AllMembers(c.AlternateViews), FALSE))))

attachAll(s, parent, list, activeview) ==
    IF list = <<>> THEN s
    ELSE Bind(attach(s, parent, Head(list), activeview), LAMBDA s1 :
         attachAll(s1, parent, Tail(list), activeview))

\* the index of the first occurrence of x in list, 0 if none
RECURSIVE IndexOf(_, _, _)
IndexOf(list, x, i) ==
    IF i > Len(list) THEN 0
    ELSE IF list[i] = x THEN i
    ELSE IndexOf(list, x, i + 1)

detach(s, e) ==
    IF s.panic # NoPanic THEN s
    ELSE IF s.el[e].Parent = Nil THEN s
    ELSE
    LET x     == s.el[e]
        index == IndexOf(x.path, x.Parent, 1)
        x1    == [x EXCEPT !.subtreeRoot = e,
                           !.path = IF index > 0 THEN SubSeq(x.path, index + 1, Len(x.path)) ELSE x.path,
                           !.Parent = Nil]
    IN  Bind([s EXCEPT !.el[e] = x1], LAMBDA s1 :
        Bind(IF e \notin ViewOwners
             THEN [s1 EXCEPT !.el[e].ViewAccessPath = Nil]
             ELSE IF x.ViewAccessPath = Nil
                  THEN Panic(s1, "nil pointer dereference")
                  ELSE IF Len(s1.vn[x.ViewAccessPath]) = 0
                       THEN Panic(s1, "slice bounds out of range")
                       ELSE [s1 EXCEPT !.vn[x.ViewAccessPath] =
                                <<s1.vn[x.ViewAccessPath][Len(s1.vn[x.ViewAccessPath])]>>],
             LAMBDA s2 :
        Bind(attachAll(s2, e, x.Children, TRUE), LAMBDA s3 :
        attachAll(s3, e, AllMembers(x.AlternateViews), FALSE))))

AppendChild(s, e, child) ==
    Bind(attach(s, e, child, TRUE), LAMBDA s1 :
        IF s1.panic # NoPanic THEN s1
        ELSE [s1 EXCEPT !.el[e].Children = Append(s1.el[e].Children, child)])

RECURSIVE AppendChildren(_, _, _)
AppendChildren(s, e, list) ==
    IF list = <<>> THEN s
    ELSE Bind(AppendChild(s, e, Head(list)), LAMBDA s1 :
         AppendChildren(s1, e, Tail(list)))

\* NewViewElements: every member's ActiveView is set to the view's name
RECURSIVE MarkMembers(_, _, _)
MarkMembers(s, name, elements) ==
    IF elements = <<>> THEN s
    ELSE Bind([s EXCEPT !.el[Head(elements)].ActiveView = name], LAMBDA s1 :
         MarkMembers(s1, name, Tail(elements)))

NewViewElements(name, elements) == [name |-> name, elements |-> elements, param |-> FALSE]

\* Element.AddView
RECURSIVE AddViewMembers(_, _, _, _)
AddViewMembers(s, e, v, list) ==
    IF list = <<>> \/ s.panic # NoPanic THEN s
    ELSE
    LET child == Head(list)
        eptr  == s.el[e].ViewAccessPath
    IN  Bind(Prepend(s, s.el[child].ViewAccessPath, <<newViewNode(e, v)>>), LAMBDA s1 :
        Bind(IF eptr = Nil THEN Panic(s1, "nil pointer dereference")
             ELSE Prepend(s1, s.el[child].ViewAccessPath, s1.vn[eptr]), LAMBDA s2 :
        Bind(attach(s2, e, child, FALSE), LAMBDA s3 :
        AddViewMembers(s3, e, v, Tail(list)))))

AddViewOp(s, e, v) ==
    Bind(AddViewMembers(s, e, v, v.elements), LAMBDA s1 :
        IF s1.panic # NoPanic THEN s1
        ELSE [s1 EXCEPT !.el[e].AlternateViews = MapPut(s1.el[e].AlternateViews, v.name, v)])

----------------------------------------------------------------------------
(* Element.ActivateView *)

GetUI(s, e) == s.el[e].activeview

SetUI(s, e, value) == [s EXCEPT !.el[e].activeview = [ok |-> TRUE, v |-> value]]

\* the key of a parameterized view among the alternate views, <<>> if none
\* (the model's views hold at most one)
ParameterName(views) ==
    IF \E k \in DOMAIN views : HasPrefix(k, <<Colon>>)
    THEN CHOOSE k \in DOMAIN views : HasPrefix(k, <<Colon>>)
    ELSE <<>>

RECURSIVE DetachChildren(_, _, _, _)
DetachChildren(s, e, list, refile) ==
    IF list = <<>> THEN s
    ELSE Bind(detach(s, Head(list)), LAMBDA s1 :
         Bind(IF refile THEN attach(s1, e, Head(list), FALSE) ELSE s1, LAMBDA s2 :
         DetachChildren(s2, e, Tail(list), refile)))

\* the former view's items are detached and, unless the former state was a
\* parameter binding, filed again under the name they had
DetachActiveView(s, e) ==
    LET oldview == GetUI(s, e)
        oldviewname == oldview.v
        viewIsParameterized == (oldviewname # s.el[e].ActiveView)
    IN  IF oldview.ok /\ oldviewname # <<>>
        THEN Bind(DetachChildren(s, e, s.el[e].Children, ~viewIsParameterized), LAMBDA s1 :
                 IF s1.panic # NoPanic \/ viewIsParameterized THEN s1
                 ELSE Bind(MarkMembers(s1, oldviewname, s1.el[e].Children), LAMBDA s2 :
                          [s2 EXCEPT !.el[e].AlternateViews =
                              MapPut(s2.el[e].AlternateViews, oldviewname,
                                     NewViewElements(oldviewname, s2.el[e].Children))]))
        ELSE s

\* a variant that records the name shown as the active view, whatever the
\* name of the parameter
RecordShownAsActive(s, e, shown, active) ==
    IF s.panic # NoPanic THEN s
    ELSE [SetUI(s, e, shown) EXCEPT !.el[e].ActiveView = shown]

RecordActiveView(s, e, shown, active) ==
    IF s.panic # NoPanic THEN s
    ELSE [SetUI(s, e, shown) EXCEPT !.el[e].ActiveView = active]

\* a variant that detaches the former view's items before the parameter is
\* applied: what the early return on the parameterization error rules out
ActivateParameterizedDetachFirst(s, e, name, parameterName, view) ==
    IF Len(parameterName) = 1 THEN [s |-> s, err |-> ErrBadParamName]
    ELSE Bind(DetachActiveView(s, e), LAMBDA s1 :
         LET r == ApplyParameter(view, name)
         IN  IF r.err # NoErr THEN [s |-> s1, err |-> r.err]
             ELSE Bind(AppendChildren(s1, e, r.view.elements), LAMBDA s2 :
                  [s |-> RecordActiveView(s2, e, name, parameterName), err |-> NoErr]))

ActivateParameterized(s, e, name, parameterName, view) ==
    IF Len(parameterName) = 1 THEN [s |-> s, err |-> ErrBadParamName]
    ELSE LET r == ApplyParameter(view, name)
         IN  IF r.err # NoErr THEN [s |-> s, err |-> r.err]
             ELSE Bind(DetachActiveView(s, e), LAMBDA s1 :
                  Bind(AppendChildren(s1, e, r.view.elements), LAMBDA s2 :
                  [s |-> RecordActiveView(s2, e, name, parameterName), err |-> NoErr]))

ActivateConcrete(s, e, name, newview) ==
    Bind(DetachActiveView(s, e), LAMBDA s1 :
    Bind(AppendChildren(s1, e, newview.elements), LAMBDA s2 :
    Bind(IF s2.panic # NoPanic THEN s2
         ELSE [s2 EXCEPT !.el[e].AlternateViews = MapDelete(s2.el[e].AlternateViews, name)],
         LAMBDA s3 :
    [s |-> RecordActiveView(s3, e, name, name), err |-> NoErr])))

ActivateViewOp(s, e, name) ==
    LET views == s.el[e].AlternateViews
    IN  IF name \in DOMAIN views
        THEN ActivateConcrete(s, e, name, views[name])
        ELSE IF ParameterName(views) # <<>>
             THEN ActivateParameterized(s, e, name, ParameterName(views), views[ParameterName(views)])
             ELSE [s |-> s, err |-> ErrNoView]

----------------------------------------------------------------------------
(* The router's trie of rnodes.  A state s also holds the rnode heap s.rn *)

ErrNotFound == "Not Found"
ErrUnauthorized == "Unauthorized"
ErrFrameworkFailure == "Framework Failure"

\* a nil map[string]map[string]*rnode, and a made one
NilNext == [nil |-> TRUE, m |-> EmptyMap]

\* the map m built from the element's views is dropped: next is nil
newchildrnode(v, root) ==
    [root |-> root, value |-> ID(v), ViewElement |-> v, next |-> NilNext]

newrootrnode(v) == [newchildrnode(v, 0) EXCEPT !.root = 1]

New(s, node) == [s EXCEPT !.rn = Append(s.rn, node)]

\* r.next[key]: reading a nil map finds nothing
NextHas(s, r, key) == ~s.rn[r].next.nil /\ key \in DOMAIN s.rn[r].next.m

NextGet(s, r, key) == IF NextHas(s, r, key) THEN s.rn[r].next.m[key] ELSE EmptyMap

\* rnode.attach: nr is filed under r.next[targetviewname][ID]; writing the
\* entry r.next[targetviewname] of a nil map panics
rnodeAttach(s, r, targetviewname, nr) ==
    IF s.panic # NoPanic THEN s
    ELSE IF ~NextHas(s, r, targetviewname) /\ s.rn[r].next.nil
         THEN Panic(s, "assignment to entry in nil map")
         ELSE LET m  == NextGet(s, r, targetviewname)
                  id == ID(s.rn[nr].ViewElement)
                  m2 == IF id \in DOMAIN m THEN m ELSE MapPut(m, id, nr)
              IN  [s EXCEPT !.rn[r].next.m = MapPut(s.rn[r].next.m, targetviewname, m2)]

\* the loop of rnode.insert over the view path, from position i (Go index)
RECURSIVE insertWalk(_, _, _, _, _, _)
insertWalk(s, rn, viewpathnodes, i, refnode, viewname) ==
    IF s.panic # NoPanic THEN [s |-> s, refnode |-> refnode, viewname |-> viewname]
    ELSE IF i >= Len(viewpathnodes) THEN [s |-> s, refnode |-> refnode, viewname |-> viewname]
    ELSE IF i + 1 < Len(viewpathnodes)
         THEN LET node == viewpathnodes[i + 1]
              IN  Bind(New(s, newchildrnode(viewpathnodes[i + 2].Element, rn)), LAMBDA s1 :
                  Bind(rnodeAttach(s1, refnode, node.View, Len(s1.rn)), LAMBDA s2 :
                  insertWalk(s2, rn, viewpathnodes, i + 1, Len(s1.rn), node.View)))
         ELSE insertWalk(s, rn, viewpathnodes, i + 1, refnode, viewname)

\* rnode.insert
rnodeInsert(s, rn, nrn) ==
    LET v == s.rn[nrn].ViewElement
        viewpath == s.el[v].ViewAccessPath
    IN  IF viewpath = Nil THEN s
        ELSE LET viewpathnodes == s.vn[viewpath]
             IN  IF Len(viewpathnodes) = 0 THEN Panic(s, "index out of range")
                 ELSE IF ID(viewpathnodes[1].Element) # ID(s.rn[s.rn[rn].root].ViewElement) THEN s
                 ELSE Bind(insertWalk(s, rn, viewpathnodes, 0, rn, <<>>), LAMBDA w :
                          rnodeAttach(w.s, w.refnode, w.viewname, nrn))

\* Router.insert; an rnode that ends up filed nowhere is garbage
RouterInsert(s, v) ==
    Bind(New(s, newchildrnode(v, 1)), LAMBDA s1 :
    Bind(rnodeInsert(s1, 1, Len(s1.rn)), LAMBDA s2 :
        IF s2.panic = NoPanic /\ s2.rn = s1.rn THEN s ELSE s2))

----------------------------------------------------------------------------
(* rnode.match *)

\* collaborators of the router that the view element supplies
isViewAuthorized(e, name) == name \in authorized[e]

hasParameterizedView(s, e) ==
    [param |-> ParameterName(s.el[e].AlternateViews),
     ok |-> ParameterName(s.el[e].AlternateViews) # <<>>]

\* Element.Set("navigation", key, value) on a view element
SetNavigation(s, e, key, value) ==
    [s EXCEPT !.el[e].Data = MapPut(s.el[e].Data, key, value)]

NoFn == [ok |-> FALSE, acts |-> <<>>, r |-> 0]

Failed(s, err) == [s |-> s, err |-> err, fn |-> NoFn]

\* the closures share the variable r: when they run, r is the rnode it
\* last held.  at is the rnode r held when the closure was made.
Activation(name, r) == [name |-> name, at |-> r]

\* the loop over the (id, viewname) pairs; segments[k + 1] is Go's segments[k]
RECURSIVE matchPairs(_, _, _, _, _, _, _)
matchPairs(s, segments, i, viewcount, r, m, activations) ==
    IF i > viewcount
    THEN [s |-> s, err |-> NoErr, fn |-> [ok |-> TRUE, acts |-> activations, r |-> r]]
    ELSE IF 2 * i + 1 >= Len(segments)
    THEN Failed(Panic(s, "index out of range"), NoErr)
    ELSE
    LET routesegment == segments[2 * i + 1]
        nextroutesegment == segments[2 * i + 2]
    IN  IF routesegment \notin DOMAIN m THEN Failed(s, ErrNotFound)
        ELSE
        LET r1 == m[routesegment]
            e1 == s.rn[r1].ViewElement
            p  == hasParameterizedView(s, e1)
            s1 == SetNavigation(s, e1, p.param, segments[2 * i + 1])
            after ==
                Bind(IF NextHas(s, r1, nextroutesegment) THEN s ELSE s1, LAMBDA s2 :
                    IF isViewAuthorized(e1, nextroutesegment)
                    THEN matchPairs(s2, segments, i + 1, viewcount, r1,
                                    IF NextHas(s, r1, nextroutesegment)
                                    THEN NextGet(s, r1, nextroutesegment)
                                    ELSE NextGet(s, r1, p.param),
                                    Append(activations, Activation(nextroutesegment, r1)))
                    ELSE Failed(s2, ErrUnauthorized))
        IN  IF s.rn[r1].value # routesegment THEN Failed(s, ErrNotFound)
            ELSE IF NextHas(s, r1, nextroutesegment) THEN after
            ELSE IF ~p.ok THEN Failed(s, ErrNotFound)
            ELSE IF ~isViewAuthorized(e1, p.param) THEN Failed(s, ErrUnauthorized)
            ELSE IF ~NextHas(s, r1, p.param) THEN Failed(s1, ErrFrameworkFailure)
            ELSE after

\* the single-token case: one closure, made after the authorization check
matchSingle(s, r, segments, param) ==
    IF isViewAuthorized(s.rn[r].ViewElement, IF param # <<>> THEN param ELSE segments[1])
    THEN [s |-> s, err |-> NoErr,
          fn |-> [ok |-> TRUE, acts |-> <<Activation(segments[1], r)>>, r |-> r]]
    ELSE Failed(s, ErrUnauthorized)

\* a variant without the parity check on the number of segments
matchRestNoParity(s, r, segments, m, param) ==
    LET ls == Len(segments)
    IN  IF ls = 1 THEN matchSingle(s, r, segments, param)
        ELSE matchPairs(s, segments, 1, (ls - (ls % 2)) \div 2, r, m, <<>>)

\* what follows the resolution of the first token
matchRest(s, r, segments, m, param) ==
    LET ls == Len(segments)
    IN  IF ls = 1 THEN matchSingle(s, r, segments, param)
        ELSE IF ls % 2 # 1 THEN Failed(s, ErrNotFound)
        ELSE matchPairs(s, segments, 1, (ls - (ls % 2)) \div 2, r, m, <<>>)

match(s, r, route) ==
    LET segments == SplitAfter(TrimPrefix(route, <<Slash>>), Slash)
        ls == Len(segments)
        e  == s.rn[r].ViewElement
        p  == hasParameterizedView(s, e)
        s1 == SetNavigation(s, e, p.param, segments[1])
    IN  IF ls = 0 THEN Failed(s, ErrNotFound)
        ELSE IF NextHas(s, r, segments[1])
        THEN matchRest(s, r, segments, NextGet(s, r, segments[1]), <<>>)
        ELSE IF ~p.ok THEN matchRest(s, r, segments, EmptyMap, <<>>)
        ELSE IF ~isViewAuthorized(e, p.param) THEN Failed(s, ErrUnauthorized)
        ELSE IF ls # 1 /\ ~NextHas(s, r, p.param) THEN Failed(s1, ErrFrameworkFailure)
        ELSE Bind(s1, LAMBDA s2 : matchRest(s2, r, segments, NextGet(s, r, p.param), p.param))

\* running the returned closure: each activation in order, on the element
\* of the rnode r holds, up to the first error
RECURSIVE runActivations(_, _, _)
runActivations(s, e, acts) ==
    IF s.panic # NoPanic THEN [s |-> s, err |-> NoErr]
    ELSE IF acts = <<>> THEN [s |-> s, err |-> NoErr]
    ELSE Bind(ActivateViewOp(s, e, Head(acts).name), LAMBDA a :
             IF a.err # NoErr THEN a
             ELSE Bind(a.s, LAMBDA s1 : runActivations(s1, e, Tail(acts))))

activationFn(s, f) == runActivations(s, s.rn[f.r].ViewElement, f.acts)

----------------------------------------------------------------------------
(* The children of an element: Prepend, InsertChild, ReplaceChild,
   RemoveChild, RemoveChildren.  Every element has the same DocType and no
   Native wrapper. *)

\* Elements.Insert, for 0 <= index <= len(List)
ElementsInsert(list, x, index) ==
    SubSeq(list, 1, index) \o <<x>> \o SubSeq(list, index + 1, Len(list))

\* Elements.Replace: the first occurrence of old becomes new
ElementsReplace(list, old, new) ==
    IF IndexOf(list, old, 1) = 0 THEN list
    ELSE [list EXCEPT ![IndexOf(list, old, 1)] = new]

\* Element.Prepend
PrependChild(s, e, child) ==
    Bind(attach(s, e, child, TRUE), LAMBDA s1 :
        IF s1.panic # NoPanic THEN s1
        ELSE [s1 EXCEPT !.el[e].Children = <<child>> \o s1.el[e].Children])

InsertChild(s, e, child, index) ==
    Bind(attach(s, e, child, TRUE), LAMBDA s1 :
        IF s1.panic # NoPanic THEN s1
        ELSE [s1 EXCEPT !.el[e].Children = ElementsInsert(s1.el[e].Children, child, index)])

ReplaceChild(s, e, old, new) ==
    Bind(attach(s, e, new, TRUE), LAMBDA s1 :
    Bind(detach(s1, old), LAMBDA s2 :
        IF s2.panic # NoPanic THEN s2
        ELSE [s2 EXCEPT !.el[e].Children = ElementsReplace(s2.el[e].Children, old, new)]))

\* Element.RemoveChild: the child is detached; e.Children is not touched
RemoveChild(s, e, child) == detach(s, child)

\* Element.RemoveChildren ranges over e.Children.List
RECURSIVE RemoveAllOf(_, _, _)
RemoveAllOf(s, e, list) ==
    IF list = <<>> THEN s
    ELSE Bind(RemoveChild(s, e, Head(list)), LAMBDA s1 : RemoveAllOf(s1, e, Tail(list)))

RemoveChildren(s, e) == RemoveAllOf(s, e, s.el[e].Children)

----------------------------------------------------------------------------
(* Element.Detached and Element.Route.  A route is the sequence of its
   characters' tokens: Slash and the IDs and view names between them. *)

Detached(s, e) ==
    LET sr == s.el[e].subtreeRoot
    IN  s.el[sr].Parent = Nil /\ sr # s.el[e].root

\* the number of elements of list that own views (AlternateViews != nil)
RECURSIVE CountViews(_)
CountViews(list) ==
    IF list = <<>> THEN 0
    ELSE (IF Head(list) \in ViewOwners THEN 1 ELSE 0) + CountViews(Tail(list))

\* the members of the view a viewNode holds
NodeMembers(s, node) ==
    IF node.View \in DOMAIN s.el[node.Element].AlternateViews
    THEN s.el[node.Element].AlternateViews[node.View].elements
    ELSE <<>>

\* Element.viewAdjacence: [v |-> the answer, panic |-> the panic it ends in]
viewAdjacence(s, e) ==
    LET x     == s.el[e]
        count == IF e \in ViewOwners THEN 1 ELSE 0
    IN  IF Len(x.path) > 1
        THEN LET firstAncestor == x.path[Len(x.path)]
             IN  IF firstAncestor \in ViewOwners
                 THEN IF x.ViewAccessPath = Nil
                      THEN [v |-> FALSE, panic |-> "nil pointer dereference"]
                      ELSE IF s.vn[x.ViewAccessPath] = <<>>
                      THEN [v |-> FALSE, panic |-> "index out of range"]
                      ELSE LET nodes == s.vn[x.ViewAccessPath]
                           IN  [v |-> count + CountViews(NodeMembers(s, nodes[Len(nodes)])) > 1,
                                panic |-> NoPanic]
                 ELSE [v |-> count + CountViews(s.el[firstAncestor].Children) > 1,
                       panic |-> NoPanic]
        ELSE [v |-> FALSE, panic |-> NoPanic]

\* pathSegment(p, views), views not nil: [v |-> the segment, panic |-> ...]
RECURSIVE pathSegmentFrom(_, _, _)
pathSegmentFrom(s, p, nodes) ==
    IF nodes = <<>> THEN [v |-> ID(p), panic |-> NoPanic]
    ELSE IF ID(Head(nodes).Element) = ID(p)
    THEN Bind(viewAdjacence(s, p), LAMBDA adj :
            [v |-> IF adj.v THEN ID(p) \o <<Slash>> \o Head(nodes).View ELSE Head(nodes).View,
             panic |-> adj.panic])
    ELSE pathSegmentFrom(s, p, Tail(nodes))

pathSegment(s, p, views) == pathSegmentFrom(s, p, s.vn[views])

RECURSIVE RouteFrom(_, _, _)
RouteFrom(s, views, list) ==
    IF list = <<>> THEN [v |-> <<>>, panic |-> NoPanic]
    ELSE Bind(pathSegment(s, Head(list), views), LAMBDA seg :
         IF seg.panic # NoPanic THEN [v |-> <<>>, panic |-> seg.panic]
         ELSE Bind(RouteFrom(s, views, Tail(list)), LAMBDA rest :
              [v |-> <<Slash>> \o seg.v \o rest.v, panic |-> rest.panic]))

\* Element.Route
Route(s, e) ==
    IF Detached(s, e) THEN [v |-> <<>>, panic |-> NoPanic]
    ELSE IF s.el[e].ViewAccessPath = Nil THEN [v |-> <<Slash>>, panic |-> NoPanic]
    ELSE RouteFrom(s, s.el[e].ViewAccessPath, s.el[e].path)

----------------------------------------------------------------------------
(* NavHistory.  Cursor is Go's index: Stack[Cursor + 1] here is Go's
   Stack[Cursor].  The stack is made with capacity 300 and Cursor never
   exceeds its length, so Stack[:Cursor] is a prefix of the stack. *)

NewNavigationHistory == [Stack |-> <<>>, Cursor |-> 0]

BackAllowed(n) == n.Cursor > 0

ForwardAllowed(n) == n.Cursor < Len(n.Stack) - 1

Push(n, URI) ==
    [Stack |-> Append(SubSeq(n.Stack, 1, n.Cursor), URI), Cursor |-> n.Cursor + 1]

\* return n.Stack[n.Cursor]: an index out of range panics
StackAt(n) ==
    IF n.Cursor < Len(n.Stack)
    THEN [n |-> n, ret |-> n.Stack[n.Cursor + 1], panic |-> NoPanic]
    ELSE [n |-> n, ret |-> <<>>, panic |-> "index out of range"]

Back(n) ==
    StackAt(IF BackAllowed(n) THEN [n EXCEPT !.Cursor = n.Cursor - 1] ELSE n)

Forward(n) ==
    StackAt(IF ForwardAllowed(n) THEN [n EXCEPT !.Cursor = n.Cursor + 1] ELSE n)

----------------------------------------------------------------------------
(* Events: EventListeners.Handle, Element.Handle, Element.DispatchEvent.
   Events have one type; an element's OnEvent is the entry of its listener
   store for that type: absent, or the list of its handlers.  A handler is
   its Capture flag and what its Fn does: "pass" returns false, "done"
   returns true, "stop" calls StopPropagation and returns false, "stopnow"
   calls StopImmediatePropagation and returns false. *)

NewEventListenerStore == [ok |-> FALSE, v |-> <<>>]

Deeds == {"pass", "done", "stop", "stopnow"}

HandlerKinds == [Capture : BOOLEAN, does : Deeds]

\* the registration Element.AddEventListener delegates to
AddEventHandler(list, eh) == [ok |-> TRUE, v |-> Append(list.v, eh)]

\* EventHandler.Handle: the handler's Fn applied to the event
Fn(h, evt) ==
    [ done |-> h.does = "done",
      evt |-> IF h.does = "stop" THEN [evt EXCEPT !.Stopped = TRUE]
              ELSE IF h.does = "stopnow" THEN [evt EXCEPT !.Stopped = TRUE, !.Phase = 0]
              ELSE evt ]

\* the loops of EventListeners.Handle over evh.List; phase is the phase
\* the switch read, ran the handlers run so far
RECURSIVE handleFrom(_, _, _, _, _)
handleFrom(list, phase, evt, ran, e) ==
    IF list = <<>> THEN [done |-> FALSE, evt |-> evt, ran |-> ran]
    ELSE IF (phase = 1 /\ ~Head(list).Capture) \/ (phase = 3 /\ Head(list).Capture)
    THEN handleFrom(Tail(list), phase, evt, ran, e)
    ELSE Bind(Fn(Head(list), evt), LAMBDA f :
         IF f.done \/ (phase # 2 /\ f.evt.Stopped /\ f.evt.Phase = 0)
         THEN [done |-> TRUE, evt |-> f.evt, ran |-> Append(ran, <<e, Head(list)>>)]
         ELSE handleFrom(Tail(list), phase, f.evt, Append(ran, <<e, Head(list)>>), e))

\* Element.Handle with EventListeners.Handle
ElementHandle(s, e, evt0, ran) ==
    LET evt == [evt0 EXCEPT !.CurrentTarget = e]
        evh == s.el[e].OnEvent
    IN  IF ~evh.ok THEN [done |-> TRUE, evt |-> evt, ran |-> ran]
        ELSE IF evt.Phase = 0 THEN [done |-> TRUE, evt |-> evt, ran |-> ran]
        ELSE IF evt.Phase = 3 /\ ~evt.Bubbles THEN [done |-> TRUE, evt |-> evt, ran |-> ran]
        ELSE handleFrom(evh.v, evt.Phase, evt, ran, e)

\* the loops of DispatchEvent over the ancestors, in the order given
RECURSIVE ancestorsHandle(_, _, _, _)
ancestorsHandle(s, ancestors, evt, ran) ==
    IF ancestors = <<>> THEN [done |-> FALSE, evt |-> evt, ran |-> ran]
    ELSE IF evt.Stopped THEN [done |-> TRUE, evt |-> evt, ran |-> ran]
    ELSE Bind(ElementHandle(s, Head(ancestors), evt, ran), LAMBDA h :
         IF h.done \/ (evt.Phase = 1 /\ h.evt.Stopped) THEN [h EXCEPT !.done = TRUE]
         ELSE ancestorsHandle(s, Tail(ancestors), h.evt, h.ran))

Reverse(list) == [k \in 1..Len(list) |-> list[Len(list) + 1 - k]]

\* Element.DispatchEvent without a native binding: the handlers run, in order
DispatchEventOp(s, e, bubbles) ==
    IF Detached(s, e) THEN <<>>
    ELSE
    Bind(ancestorsHandle(s, s.el[e].path,
                         [Phase |-> 1, Stopped |-> FALSE, Bubbles |-> bubbles,
                          CurrentTarget |-> Nil], <<>>), LAMBDA c :
    IF c.done THEN c.ran
    ELSE
    Bind(ElementHandle(s, e, [c.evt EXCEPT !.Phase = 2], c.ran), LAMBDA g :
    IF g.done \/ ~bubbles THEN g.ran
    ELSE ancestorsHandle(s, Reverse(s.el[e].path), [g.evt EXCEPT !.Phase = 3], g.ran).ran))

----------------------------------------------------------------------------
(* The state after construction *)

NewElement(e) ==
    [ Parent |-> Nil,
      root |-> IF e = Root THEN Root ELSE Nil,
      subtreeRoot |-> e,
      path |-> <<>>,
      Children |-> <<>>,
      ActiveView |-> <<>>,
      AlternateViews |-> EmptyMap,
      ViewAccessPath |-> e,
      activeview |-> [ok |-> FALSE, v |-> <<>>],
      Data |-> EmptyMap,
      OnEvent |-> NewEventListenerStore ]

Tree == [el |-> el, vn |-> vn, rn |-> rnodes, panic |-> panicked]

Bounded(s) ==
    \A e \in Elems :
        /\ Len(s.el[e].Children) <= MaxChildren
        /\ Len(s.el[e].path) <= MaxPath
        /\ Len(s.vn[e]) <= MaxVap

\* the names ActivateView is called with: view names and parameter values
Names == {VH, VK, VX, <<"1">>, <<"2">>, <<"0">>}

\* the calls of ActivateView the application makes
Activations ==
    { <<"r", n>> : n \in {VH, VK, <<"1">>, <<"2">>, <<"0">>} } \cup { <<"a", VX>>, <<"b", VX>> }

\* what isViewAuthorized answers: everything but one view of the root
Auth(D) == [e \in ViewOwners |-> IF e = Root THEN (Names \cup {VP}) \ D ELSE Names \cup {VP}]

AuthConfigs == {Auth({VK}), Auth({VP})}

----------------------------------------------------------------------------
(* Router.handler: the mutation handler of navigation/routechangerequest *)

BaseURL == <<>>
LeaveTrailingSlash == FALSE

\* a variant that publishes the route whatever the activation chain returned
handlerIgnoringChainError(s, n, payload) ==
    IF ~payload.str
    THEN [s |-> s, nav |-> [n EXCEPT !.appfailure = TRUE], ret |-> TRUE,
          signal |-> "appfailure", published |-> FALSE, merr |-> NoErr, aerr |-> NoErr]
    ELSE IF ~LeaveTrailingSlash /\ Len(payload.route) = 0
    THEN [s |-> Panic(s, "slice bounds out of range"), nav |-> n, ret |-> TRUE,
          signal |-> "", published |-> FALSE, merr |-> NoErr, aerr |-> NoErr]
    ELSE
    LET trimmed  == IF ~LeaveTrailingSlash /\ payload.route[Len(payload.route)] = Slash
                    THEN SubSeq(payload.route, 1, Len(payload.route) - 1)
                    ELSE payload.route
        newroute == TrimPrefix(trimmed, BaseURL)
    IN  Bind(match(s, 1, newroute), LAMBDA a :
        Bind(IF a.s.panic = NoPanic /\ a.err = NoErr
             THEN activationFn(a.s, a.fn) ELSE [s |-> a.s, err |-> NoErr], LAMBDA ran :
        IF a.s.panic # NoPanic
        THEN [s |-> a.s, nav |-> n, ret |-> TRUE,
              signal |-> "", published |-> FALSE, merr |-> NoErr, aerr |-> NoErr]
        ELSE IF a.err # NoErr
        THEN [s |-> a.s, nav |-> [n EXCEPT !.unauthorized = TRUE], ret |-> TRUE,
              signal |-> "unauthorized", published |-> FALSE, merr |-> a.err, aerr |-> NoErr]
        ELSE IF ran.s.panic # NoPanic
        THEN [s |-> ran.s, nav |-> n, ret |-> TRUE,
              signal |-> "", published |-> FALSE, merr |-> NoErr, aerr |-> NoErr]
        ELSE [s |-> ran.s, nav |-> [n EXCEPT !.currentroute = [ok |-> TRUE, v |-> payload.route]],
              ret |-> FALSE,
              signal |-> "", published |-> TRUE, merr |-> NoErr, aerr |-> ran.err]))

\* the handler's result: what it signalled and whether it published
handler(s, n, payload) ==
    IF ~payload.str
    THEN [s |-> s, nav |-> [n EXCEPT !.appfailure = TRUE], ret |-> TRUE,
          signal |-> "appfailure", published |-> FALSE, merr |-> NoErr, aerr |-> NoErr]
    ELSE IF ~LeaveTrailingSlash /\ Len(payload.route) = 0
    THEN [s |-> Panic(s, "slice bounds out of range"), nav |-> n, ret |-> TRUE,
          signal |-> "", published |-> FALSE, merr |-> NoErr, aerr |-> NoErr]
    ELSE
    LET trimmed  == IF ~LeaveTrailingSlash /\ payload.route[Len(payload.route)] = Slash
                    THEN SubSeq(payload.route, 1, Len(payload.route) - 1)
                    ELSE payload.route
        newroute == TrimPrefix(trimmed, BaseURL)
    IN  Bind(match(s, 1, newroute), LAMBDA a :
        Bind(IF a.s.panic = NoPanic /\ a.err = NoErr
             THEN activationFn(a.s, a.fn) ELSE [s |-> a.s, err |-> NoErr], LAMBDA ran :
        IF a.s.panic # NoPanic
        THEN [s |-> a.s, nav |-> n, ret |-> TRUE,
              signal |-> "", published |-> FALSE, merr |-> NoErr, aerr |-> NoErr]
        ELSE IF a.err # NoErr
        THEN [s |-> a.s, nav |-> [n EXCEPT !.unauthorized = TRUE], ret |-> TRUE,
              signal |-> "unauthorized", published |-> FALSE, merr |-> a.err, aerr |-> NoErr]
        ELSE IF ran.s.panic # NoPanic
        THEN [s |-> ran.s, nav |-> n, ret |-> TRUE,
              signal |-> "", published |-> FALSE, merr |-> NoErr, aerr |-> NoErr]
        ELSE IF ran.err # NoErr
        THEN [s |-> ran.s, nav |-> [n EXCEPT !.unauthorized = TRUE], ret |-> TRUE,
              signal |-> "unauthorized", published |-> FALSE, merr |-> NoErr, aerr |-> ran.err]
        ELSE [s |-> ran.s, nav |-> [n EXCEPT !.currentroute = [ok |-> TRUE, v |-> payload.route]],
              ret |-> FALSE,
              signal |-> "", published |-> TRUE, merr |-> NoErr, aerr |-> NoErr]))

Unset == [ok |-> FALSE, v |-> <<>>]

Init ==
    /\ el = [e \in Elems |-> NewElement(e)]
    /\ vn = [e \in Elems |-> <<>>]
    /\ registered = {}
    /\ authorized \in AuthConfigs
    /\ rnodes = <<newrootrnode(Root)>>
    /\ nav = [routechangerequest |-> Unset, currentroute |-> Unset,
              unauthorized |-> FALSE, appfailure |-> FALSE, onnotfound |-> Unset,
              onunauthorized |-> Unset]
    /\ serving = FALSE
    /\ res = [op |-> "init"]
    /\ panicked = NoPanic
    /\ history = Push(NewNavigationHistory, <<Slash>>)

Commit(s0) ==
    \E s \in {s0} :
    /\ Bounded(s)
    /\ el' = s.el
    /\ vn' = s.vn
    /\ rnodes' = s.rn
    /\ panicked' = s.panic

\* NewViewElements / NewParameterizedView, then Element.AddView
AddView(v) ==
    /\ panicked = NoPanic
    /\ ~serving
    /\ v \notin registered
    /\ \E s0 \in {MarkMembers(Tree, v.name, v.elements)} :
       \E s1 \in {AddViewOp(s0, v.owner, [name |-> v.name, elements |-> v.elements, param |-> v.param])} :
           Commit(s1)
    /\ registered' = registered \cup {v}
    /\ res' = [op |-> "AddView", e |-> v.owner, name |-> v.name]
    /\ UNCHANGED <<authorized, nav, serving, history>>

ActivateView(e, name) ==
    /\ panicked = NoPanic
    /\ \E s \in {Tree} : \E r \in {ActivateViewOp(s, e, name)} :
           /\ Commit(r.s)
           /\ res' = [op |-> "ActivateView", e |-> e, name |-> name, err |-> r.err]
    /\ UNCHANGED <<registered, authorized, nav, serving, history>>

\* Router.insert, as run for a view element on a docupdate
Insert(e) ==
    /\ panicked = NoPanic
    /\ ~serving
    /\ \E s \in {Tree} : \E s1 \in {RouterInsert(s, e)} : Commit(s1)
    /\ res' = [op |-> "insert", e |-> e]
    /\ UNCHANGED <<registered, authorized, nav, serving, history>>

\* Router.ListenAndServe, called once the application's structure is built
\* (no Link was made: verifyLinkActivation has nothing to verify)
ListenAndServe ==
    /\ panicked = NoPanic
    /\ ~serving
    /\ serving' = TRUE
    /\ res' = [op |-> "ListenAndServe"]
    /\ UNCHANGED <<el, vn, registered, authorized, rnodes, nav, panicked, history>>

\* Router.match
Match(route) ==
    /\ panicked = NoPanic
    /\ serving
    /\ \E s \in {Tree} : \E r \in {match(s, 1, route)} :
           /\ Commit(r.s)
           /\ res' = [op |-> "match", route |-> route, err |-> r.err, fn |-> r.fn]
    /\ UNCHANGED <<registered, authorized, nav, serving, history>>

\* the caller of match runs the closure it was handed
Invoke ==
    /\ panicked = NoPanic
    /\ serving
    /\ res.op = "match"
    /\ res.fn.ok
    /\ \E s \in {Tree} : \E r \in {activationFn(s, res.fn)} :
           /\ Commit(r.s)
           /\ res' = [op |-> "invoke", route |-> res.route, fn |-> res.fn, err |-> r.err]
    /\ UNCHANGED <<registered, authorized, nav, serving, history>>

\* Element.Set("navigation", "routechangerequest", String(route)) on the
\* root: the value is stored and its watcher runs, which is the handler once
\* ListenAndServe has registered it
Request(s, n, route, watched) ==
    Bind([n EXCEPT !.routechangerequest = [ok |-> TRUE, v |-> route]], LAMBDA n1 :
    IF watched
    THEN handler(s, n1, [str |-> TRUE, route |-> route])
    ELSE [s |-> s, nav |-> n1, ret |-> FALSE,
          signal |-> "", published |-> FALSE, merr |-> NoErr, aerr |-> NoErr])

\* the view OnNotfound is given
NotFoundView == [owner |-> Root, name |-> <<"n">>, elements |-> <<>>, param |-> FALSE]

\* Router.OnNotfound: the view is added to the root and a watcher of
\* navigation/notfound is registered (nav.onnotfound holds the view's name)
OnNotfound(dest) ==
    /\ panicked = NoPanic
    /\ ~nav.onnotfound.ok
    /\ \E s1 \in {AddViewOp(Tree, Root, [name |-> dest.name, elements |-> dest.elements,
                                         param |-> dest.param])} :
           Commit(s1)
    /\ registered' = registered \cup {dest}
    /\ nav' = [nav EXCEPT !.onnotfound = [ok |-> TRUE, v |-> dest.name]]
    /\ res' = [op |-> "OnNotfound", name |-> dest.name]
    /\ UNCHANGED <<authorized, serving, history>>

\* the watcher OnNotfound registered: it runs when the handler has set
\* navigation/notfound, and calls GoTo(BaseURL + "/" + dest.Name())
Fallback(h, hist, watched) ==
    IF h.signal = "notfound" /\ h.nav.onnotfound.ok /\ h.s.panic = NoPanic
    THEN Bind(BaseURL \o <<Slash>> \o h.nav.onnotfound.v, LAMBDA route :
         Bind(Request(h.s, h.nav, route, watched), LAMBDA g :
            [s |-> g.s, nav |-> g.nav,
             history |-> IF g.s.panic = NoPanic THEN Push(hist, route) ELSE hist,
             goto |-> [ok |-> TRUE, v |-> route]]))
    ELSE [s |-> h.s, nav |-> h.nav, history |-> hist, goto |-> Unset]

\* a route change request reaches the root: navigation/routechangerequest
\* is set and its watcher, the handler, runs, then the watchers of what the
\* handler set.  Nothing watches navigation/unauthorized.
RouteChange(payload) ==
    /\ panicked = NoPanic
    /\ serving
    /\ \E s \in {Tree} :
       \E n \in {[nav EXCEPT !.routechangerequest = [ok |-> TRUE, v |-> payload.route]]} :
       \E h \in {handler(s, n, payload)} :
       \E f \in {Fallback(h, history, serving)} :
           /\ Commit(f.s)
           /\ nav' = f.nav
           /\ history' = f.history
           /\ res' = [op |-> "routechange", payload |-> payload, signal |-> h.signal,
                      published |-> h.published, merr |-> h.merr, aerr |-> h.aerr,
                      goto |-> f.goto]
    /\ UNCHANGED <<registered, authorized, serving>>

\* the routes handed to match
Routes ==
    { <<"/", "h">>, <<"/", "k">>, <<"/", "1">>, <<"/", "2">>, <<"/", "0">>,
      <<"/", "h", "/", "a", "/", "x">>, <<"/", "h", "/", "a">>, <<"/", "1", "/", "a">>,
      <<"/", "h", "/", "a", "/", "x", "/", "b", "/", "y">> }

\* the values navigation/routechangerequest is set to
Payloads ==
    { [str |-> TRUE, route |-> r] :
        r \in { <<"/", "h">>, <<"/", "k">>, <<"/", "1">>, <<"/", "2">>, <<"/", "0">>,
                <<"/", "h", "/", "a", "/", "x">>, <<"/", "h", "/", "a">>,
                <<"/", "h", "/">>, <<>> } }
    \cup { [str |-> FALSE, route |-> <<>>] }

\* the last operations on the history and what they returned, newest last
Trail == IF "trail" \in DOMAIN res THEN res.trail ELSE <<>>

Logged(entry) ==
    LET all == Append(Trail, entry)
    IN  IF Len(all) > TrailLen THEN SubSeq(all, Len(all) - TrailLen + 1, Len(all)) ELSE all

\* the URIs pushed on the history
URIs == { <<Slash, "a">>, <<Slash, "b">>, <<Slash, "c">> }

\* NavHistory.Push
DoPush(URI) ==
    /\ panicked = NoPanic
    /\ Len(history.Stack) < MaxStack
    /\ history' = Push(history, URI)
    /\ res' = [op |-> "Push", trail |-> Logged([op |-> "Push", arg |-> URI, ret |-> <<>>])]
    /\ UNCHANGED <<el, vn, registered, authorized, rnodes, nav, serving, panicked>>

\* NavHistory.Back
DoBack ==
    /\ panicked = NoPanic
    /\ \E b \in {Back(history)} :
          /\ history' = b.n
          /\ panicked' = b.panic
          /\ res' = [op |-> "Back", ret |-> b.ret, allowed |-> BackAllowed(history), before |-> history,
                     trail |-> Logged([op |-> "Back", arg |-> <<>>, ret |-> b.ret])]
    /\ UNCHANGED <<el, vn, registered, authorized, rnodes, nav, serving>>

\* NavHistory.Forward
DoForward ==
    /\ panicked = NoPanic
    /\ \E f \in {Forward(history)} :
          /\ history' = f.n
          /\ panicked' = f.panic
          /\ res' = [op |-> "Forward", ret |-> f.ret, allowed |-> ForwardAllowed(history), before |-> history,
                     trail |-> Logged([op |-> "Forward", arg |-> <<>>, ret |-> f.ret])]
    /\ UNCHANGED <<el, vn, registered, authorized, rnodes, nav, serving>>

\* the elements listed in l
Listed(l) == { l[i] : i \in 1..Len(l) }

\* the elements reached from those of S through Children lists and the
\* members of alternate views, in at most k steps
RECURSIVE Below(_, _, _)
Below(s, S, k) ==
    IF k = 0 THEN S
    ELSE Below(s, S \cup UNION { Listed(s.el[x].Children) \cup Listed(AllMembers(s.el[x].AlternateViews))
                                   : x \in S }, k - 1)

\* e and the elements of its subtree
SubtreeOf(s, e) == Below(s, {e}, Cardinality(Elems))

\* the application gives an element a child that is not the document root,
\* has no parent, and does not hold the element in its own subtree
Attachable(e, child) ==
    /\ child \in Elems \ {Root, e}
    /\ el[child].Parent = Nil
    /\ e \notin SubtreeOf(Tree, child)

\* Element.AppendChild
DoAppendChild(e, child) ==
    /\ panicked = NoPanic
    /\ Attachable(e, child)
    /\ \E s1 \in {AppendChild(Tree, e, child)} : Commit(s1)
    /\ res' = [op |-> "AppendChild", e |-> e, child |-> child]
    /\ UNCHANGED <<registered, authorized, nav, serving, history>>

\* Element.Prepend
DoPrepend(e, child) ==
    /\ panicked = NoPanic
    /\ Attachable(e, child)
    /\ \E s1 \in {PrependChild(Tree, e, child)} : Commit(s1)
    /\ res' = [op |-> "Prepend", e |-> e, child |-> child]
    /\ UNCHANGED <<registered, authorized, nav, serving, history>>

\* Element.InsertChild
DoInsertChild(e, child, index) ==
    /\ panicked = NoPanic
    /\ Attachable(e, child)
    /\ index \in 0..Len(el[e].Children)
    /\ \E s1 \in {InsertChild(Tree, e, child, index)} : Commit(s1)
    /\ res' = [op |-> "InsertChild", e |-> e, child |-> child]
    /\ UNCHANGED <<registered, authorized, nav, serving, history>>

\* Element.ReplaceChild, for a listed child old
DoReplaceChild(e, old, new) ==
    /\ panicked = NoPanic
    /\ old \in Listed(el[e].Children)
    /\ Attachable(e, new)
    /\ \E s1 \in {ReplaceChild(Tree, e, old, new)} : Commit(s1)
    /\ res' = [op |-> "ReplaceChild", e |-> e, child |-> new,
               detached |-> old, hadparent |-> el[old].Parent # Nil]
    /\ UNCHANGED <<registered, authorized, nav, serving, history>>

\* Element.RemoveChild, for a listed child
DoRemoveChild(e, child) ==
    /\ panicked = NoPanic
    /\ child \in Listed(el[e].Children)
    /\ \E s1 \in {RemoveChild(Tree, e, child)} : Commit(s1)
    /\ res' = [op |-> "RemoveChild", e |-> e, child |-> child,
               detached |-> child, hadparent |-> el[child].Parent # Nil]
    /\ UNCHANGED <<registered, authorized, nav, serving, history>>

\* Element.RemoveChildren
DoRemoveChildren(e) ==
    /\ panicked = NoPanic
    /\ el[e].Children # <<>>
    /\ \E s1 \in {RemoveChildren(Tree, e)} : Commit(s1)
    /\ res' = [op |-> "RemoveChildren", e |-> e]
    /\ UNCHANGED <<registered, authorized, nav, serving, history>>

\* the elements the application arranges
DomElems == {"r", "a", "c"}

\* the views it adds and activates meanwhile
DomViews == { v \in Catalogue : v.name = VH }

\* the element tree rearranged by the application, with views
NextDom ==
    \/ \E e, child \in DomElems : DoAppendChild(e, child)
    \/ \E e, child \in DomElems : DoPrepend(e, child)
    \/ \E e, child \in DomElems : \E index \in 0..MaxChildren : DoInsertChild(e, child, index)
    \/ \E e, old, new \in DomElems : DoReplaceChild(e, old, new)
    \/ \E e, child \in DomElems : DoRemoveChild(e, child)
    \/ \E e \in DomElems : DoRemoveChildren(e)
    \/ \E v \in DomViews :
          /\ v.owner \notin Below(Tree, Listed(v.elements), Cardinality(Elems))
          /\ AddView(v)
    \/ \E v \in DomViews : ActivateView(v.owner, v.name)

\* the routes the application navigates to
NavRoutes == { <<Slash, "h">>, <<Slash, "k">>, <<Slash, "h", Slash, "a", Slash, "x">> }

\* the view OnUnauthorized is given
UnauthorizedView == CHOOSE v \in Catalogue : v.owner = Root /\ v.name = VH

\* Router.OnUnauthorized: the view is made and added to the root and a
\* watcher of navigation/unauthorized is registered (nav.onunauthorized
\* holds the view's name)
OnUnauthorized(dest) ==
    /\ panicked = NoPanic
    /\ ~nav.onunauthorized.ok
    /\ dest \notin registered
    /\ \E s0 \in {MarkMembers(Tree, dest.name, dest.elements)} :
       \E s1 \in {AddViewOp(s0, Root, [name |-> dest.name, elements |-> dest.elements,
                                       param |-> dest.param])} :
           Commit(s1)
    /\ registered' = registered \cup {dest}
    /\ nav' = [nav EXCEPT !.onunauthorized = [ok |-> TRUE, v |-> dest.name]]
    /\ res' = [op |-> "OnUnauthorized", name |-> dest.name]
    /\ UNCHANGED <<authorized, serving, history>>

\* Router.GoTo with what it sets off: the request runs the handler, the
\* handler's "unauthorized" signal runs the watcher OnUnauthorized
\* registered, which calls GoTo(BaseURL + "/" + dest.Name()) before the
\* handler returns; each GoTo pushes its route once its request returned.
\* seen holds the (tree, navigation, route) the enclosing calls started
\* from: a call that starts from one of them repeats it without end, and
\* the goroutine's stack overflows.
RECURSIVE GoToOp(_, _, _, _, _, _)
GoToOp(s, n, hist, route, watched, seen) ==
    IF <<s, n, route>> \in seen
    THEN [s |-> Panic(s, "stack overflow"), nav |-> n, history |-> hist]
    ELSE
    Bind(Request(s, n, route, watched), LAMBDA h :
    Bind(IF h.s.panic = NoPanic /\ h.signal = "unauthorized" /\ h.nav.onunauthorized.ok
         THEN GoToOp(h.s, h.nav, hist, BaseURL \o <<Slash>> \o h.nav.onunauthorized.v,
                     watched, seen \cup {<<s, n, route>>})
         ELSE [s |-> h.s, nav |-> h.nav, history |-> hist], LAMBDA g :
    [s |-> g.s, nav |-> g.nav,
     history |-> IF g.s.panic = NoPanic THEN Push(g.history, route) ELSE g.history]))

\* Router.GoTo: the request is issued, then the route is pushed
GoTo(route) ==
    /\ panicked = NoPanic
    /\ Len(history.Stack) < MaxStack
    /\ \E h \in {GoToOp(Tree, nav, history, route, serving, {})} :
          /\ Commit(h.s)
          /\ nav' = h.nav
          /\ history' = h.history
          /\ res' = [op |-> "GoTo", issued |-> TRUE, route |-> route,
                     trail |-> Logged([op |-> "GoTo", issued |-> TRUE, route |-> route])]
    /\ UNCHANGED <<registered, authorized, serving>>

\* the body of GoBack and GoForward: when the move is allowed, the history
\* moves and the request is issued with the entry it returns
Move(op, allowed, moved) ==
    IF ~allowed
    THEN /\ res' = [op |-> op, issued |-> FALSE, route |-> <<>>, allowed |-> FALSE,
                    before |-> history, navbefore |-> nav,
                    trail |-> Logged([op |-> op, issued |-> FALSE, route |-> <<>>])]
         /\ UNCHANGED <<el, vn, rnodes, panicked, nav, history>>
    ELSE \E m \in {moved} :
         \E h \in {IF m.panic = NoPanic
                   THEN Request(Tree, nav, m.ret, serving)
                   ELSE [s |-> Panic(Tree, m.panic), nav |-> nav]} :
             /\ Commit(h.s)
             /\ nav' = h.nav
             /\ history' = m.n
             /\ res' = [op |-> op, issued |-> m.panic = NoPanic, route |-> m.ret,
                        allowed |-> TRUE, before |-> history, navbefore |-> nav,
                        trail |-> Logged([op |-> op, issued |-> m.panic = NoPanic,
                                          route |-> m.ret])]

\* Router.GoBack
GoBack ==
    /\ panicked = NoPanic
    /\ Move("GoBack", BackAllowed(history), Back(history))
    /\ UNCHANGED <<registered, authorized, serving>>

\* Router.GoForward
GoForward ==
    /\ panicked = NoPanic
    /\ Move("GoForward", ForwardAllowed(history), Forward(history))
    /\ UNCHANGED <<registered, authorized, serving>>

\* the application navigating: GoTo, GoBack and GoForward, before and after
\* ListenAndServe
NextNav ==
    \/ ListenAndServe
    \/ \E route \in NavRoutes : GoTo(route)
    \/ GoBack
    \/ GoForward

\* the navigation history on its own, as the router makes it
NextHistory ==
    \/ \E URI \in URIs : DoPush(URI)
    \/ DoBack
    \/ DoForward

\* the element tree on its own: views are added and activated
NextTree ==
    \/ \E v \in Catalogue : AddView(v)
    \/ \E a \in Activations : ActivateView(a[1], a[2])

InitTree == Init /\ authorized = Auth({VK})

SpecHistory == InitTree /\ [][NextHistory]_vars

SpecNav == InitTree /\ [][NextNav]_vars

SpecDom == InitTree /\ [][NextDom]_vars

\* the application navigating with a fallback view for unauthorized routes
NextUnauthorized ==
    \/ OnUnauthorized(UnauthorizedView)
    \/ ListenAndServe
    \/ \E route \in NavRoutes : GoTo(route)

SpecUnauthorized == InitTree /\ [][NextUnauthorized]_vars

\* the handlers registered in the tree
RECURSIVE HandlerCount(_)
HandlerCount(S) ==
    IF S = {} THEN 0
    ELSE LET x == CHOOSE y \in S : TRUE IN Len(el[x].OnEvent.v) + HandlerCount(S \ {x})

\* Element.AddEventListener without a native binding
AddEventListener(e, eh) ==
    /\ panicked = NoPanic
    /\ HandlerCount(Elems) < MaxHandlers
    /\ el' = [el EXCEPT ![e].OnEvent = AddEventHandler(@, eh)]
    /\ res' = [op |-> "AddEventListener", e |-> e, handler |-> eh]
    /\ UNCHANGED <<vn, registered, authorized, rnodes, nav, serving, panicked, history>>

\* Element.DispatchEvent without a native binding
DispatchEvent(e, bubbles) ==
    /\ panicked = NoPanic
    /\ \E ran \in {DispatchEventOp(Tree, e, bubbles)} :
          res' = [op |-> "DispatchEvent", e |-> e, bubbles |-> bubbles, ran |-> ran]
    /\ UNCHANGED <<el, vn, registered, authorized, rnodes, nav, serving, panicked, history>>

\* the element tree built by the application, with listeners and events
NextEvent ==
    \/ \E e, child \in DomElems : DoAppendChild(e, child)
    \/ \E e \in DomElems : \E eh \in HandlerKinds : AddEventListener(e, eh)
    \/ \E e \in DomElems : \E bubbles \in BOOLEAN : DispatchEvent(e, bubbles)

SpecEvent == InitTree /\ [][NextEvent]_vars

\* the router serving route change requests with a not-found view
NextFallback ==
    \/ \E v \in Catalogue : AddView(v)
    \/ OnNotfound(NotFoundView)
    \/ ListenAndServe
    \/ \E payload \in Payloads : RouteChange(payload)

SpecFallback == Init /\ [][NextFallback]_vars

SpecTree == InitTree /\ [][NextTree]_vars

\* the router's trie and match, once the structure is built
NextMatch ==
    \/ \E v \in Catalogue : AddView(v)
    \/ \E e \in ViewOwners : Insert(e)
    \/ ListenAndServe
    \/ \E route \in Routes : Match(route)
    \/ Invoke

SpecMatch == Init /\ [][NextMatch]_vars

\* the router serving route change requests
NextServe ==
    \/ \E v \in Catalogue : AddView(v)
    \/ \E e \in ViewOwners : Insert(e)
    \/ ListenAndServe
    \/ \E payload \in Payloads : RouteChange(payload)

SpecServe == Init /\ [][NextServe]_vars

----------------------------------------------------------------------------
(* Properties of Element.ActivateView, checked under SpecTree *)

\* the members of the view that ActivateView(name) on e activates
ActivatedMembers(e, name) ==
    IF name \in DOMAIN el[e].AlternateViews THEN el[e].AlternateViews[name].elements
    ELSE IF name \in DOMAIN ParamMembers THEN ParamMembers[name]
    ELSE <<>>

\* C2: after a successful ActivateView(name) on an element e, e.Children are
\* exactly the members of the activated view, in order: no member of the
\* previously active view remains among them.
C2_ChildrenAreTheActivatedView ==
    [][(res'.op = "ActivateView" /\ res'.err = NoErr /\ panicked' = NoPanic)
         => el'[res'.e].Children = ActivatedMembers(res'.e, res'.name)]_vars

\* ActivateView(name) on e hands name to the parameterization function of
\* e's parameterized view, which rejects it
Rejected(e, name) ==
    /\ name \notin DOMAIN el[e].AlternateViews
    /\ Len(ParameterName(el[e].AlternateViews)) > 1
    /\ ApplyParameter(el[e].AlternateViews[ParameterName(el[e].AlternateViews)], name).err # NoErr

\* C7: when ActivateView is called with a value the parameterization
\* function rejects, it returns that function's error and the element's
\* Children, AlternateViews, ActiveView and activeview property are as
\* before the call (as is every other element and view path).
C7_RejectedValueChangesNothing ==
    [][(res'.op = "ActivateView" /\ Rejected(res'.e, res'.name))
         => /\ res'.err = ApplyParameter(el[res'.e].AlternateViews[ParameterName(el[res'.e].AlternateViews)],
                                         res'.name).err
            /\ el'[res'.e].Children = el[res'.e].Children
            /\ el'[res'.e].AlternateViews = el[res'.e].AlternateViews
            /\ el'[res'.e].ActiveView = el[res'.e].ActiveView
            /\ el'[res'.e].activeview = el[res'.e].activeview
            /\ el' = el /\ vn' = vn /\ panicked' = NoPanic]_vars

\* a rejected value was handed to an element that shows a view
C7_Witness ==
    /\ res.op = "ActivateView"
    /\ res.err = ErrParam
    /\ el[res.e].activeview.ok
    /\ el[res.e].Children # <<>>

----------------------------------------------------------------------------
(* Properties of the trie and of rnode.match, checked under SpecMatch *)

\* the tokens of a route, as the route's author reads them: no separator
RouteTokens(route) ==
    LET segments == SplitAfter(TrimPrefix(route, <<Slash>>), Slash)
    IN  [i \in 1..Len(segments) |->
            IF segments[i] # <<>> /\ segments[i][Len(segments[i])] = Slash
            THEN SubSeq(segments[i], 1, Len(segments[i]) - 1)
            ELSE segments[i]]

TokenCount(route) == Len(RouteTokens(route))

\* the element a route names at level i: the root, then the element with
\* the ID of token 2i (Nil if there is none)
LevelElement(route, i) ==
    IF i = 0 THEN Root
    ELSE IF \E e \in Elems : ID(e) = RouteTokens(route)[2 * i]
         THEN CHOOSE e \in Elems : ID(e) = RouteTokens(route)[2 * i]
         ELSE Nil

LevelView(route, i) == RouteTokens(route)[2 * i + 1]

Levels(route) == 0..((TokenCount(route) - 1) \div 2)

\* the route /v0/id1/v1/.../idk/vk names registered, authorized views and
\* their members along one path from the root
NamesRegisteredPath(route) ==
    /\ TokenCount(route) % 2 = 1
    /\ \A i \in Levels(route) :
          /\ LevelElement(route, i) \in ViewOwners
          /\ isViewAuthorized(LevelElement(route, i), LevelView(route, i))
          /\ \E c \in registered :
                /\ c.owner = LevelElement(route, i)
                /\ c.name = LevelView(route, i)
                /\ ~c.param
                /\ (i + 1) \in Levels(route) =>
                      \E k \in 1..Len(c.elements) : c.elements[k] = LevelElement(route, i + 1)

\* C1: for a route /v0/id1/v1/.../idk/vk that names registered views and
\* elements along one path, match returns no error and an activation chain,
\* and running the chain sets ActiveView to v0 on the root and to vi on the
\* element with ID idi, for every i.
C1_MatchActivatesAlongThePath ==
    (res.op \in {"match", "invoke"} /\ NamesRegisteredPath(res.route))
      => /\ panicked = NoPanic
         /\ res.err = NoErr
         /\ res.op = "match" => res.fn.ok
         /\ res.op = "invoke" =>
               \A i \in Levels(res.route) :
                   el[LevelElement(res.route, i)].ActiveView = LevelView(res.route, i)

\* the view path of e starts at the trie's root element
StartsAtRoot(e) ==
    /\ el[e].ViewAccessPath # Nil
    /\ Len(vn[el[e].ViewAccessPath]) > 0
    /\ vn[el[e].ViewAccessPath][1].Element = Root

\* the rnode reached from cur by consuming the view path from entry i: the
\* child map of the entry's view, then the entry of the next owner's ID
\* (of v's own ID at the last step); 0 if the walk falls off the trie
RECURSIVE Walk(_, _, _, _, _)
Walk(rn, cur, path, i, v) ==
    IF i > Len(path) THEN cur
    ELSE LET key == path[i].View
             id  == IF i < Len(path) THEN ID(path[i + 1].Element) ELSE ID(v)
             nx  == rn[cur].next
         IN  IF nx.nil \/ key \notin DOMAIN nx.m THEN 0
             ELSE IF id \notin DOMAIN nx.m[key] THEN 0
             ELSE Walk(rn, nx.m[key][id], path, i + 1, v)

\* C3: after an insertion, the rnode created for the inserted element is
\* reachable from the trie root by consuming the element's ViewAccessPath
\* in order.
C3_InsertedIsReachable ==
    (res.op = "insert" /\ StartsAtRoot(res.e))
      => \E n \in 2..Len(rnodes) :
            /\ rnodes[n].ViewElement = res.e
            /\ Walk(rnodes, 1, vn[el[res.e].ViewAccessPath], 1, res.e) = n

\* every next map reachable from rnode n, to depth d
RECURSIVE TrieShape(_, _, _)
TrieShape(rn, n, d) ==
    IF d = 0 \/ rn[n].next.nil THEN EmptyMap
    ELSE [key \in DOMAIN rn[n].next.m |->
            [id \in DOMAIN rn[n].next.m[key] |->
                <<rn[rn[n].next.m[key][id]].ViewElement,
                  TrieShape(rn, rn[n].next.m[key][id], d - 1)>>]]

\* C4: once an element has been inserted, inserting it again leaves the
\* trie reachable from the root identical.
C4_InsertIsIdempotent ==
    (res.op = "insert" /\ StartsAtRoot(res.e))
      => /\ panicked = NoPanic
         /\ RouterInsert(Tree, res.e).panic = NoPanic
         /\ TrieShape(RouterInsert(Tree, res.e).rn, 1, MaxPath) = TrieShape(rnodes, 1, MaxPath)

\* the single token of the route names a non-parameterized view of the root
NamesRootView(route) ==
    /\ TokenCount(route) = 1
    /\ \E c \in registered : c.owner = Root /\ c.name = RouteTokens(route)[1] /\ ~c.param

\* C5: for a single-token route naming a non-parameterized view v of the
\* root: if v is authorized, match returns a closure and no error and
\* running it activates v on the root; if v is not authorized, match returns
\* Unauthorized and no closure, and nothing is activated.
C5_SingleTokenAuthorization ==
    (res.op \in {"match", "invoke"} /\ NamesRootView(res.route))
      => IF isViewAuthorized(Root, RouteTokens(res.route)[1])
         THEN /\ res.op = "match" => (res.fn.ok /\ res.err = NoErr)
              /\ res.op = "invoke" =>
                    (res.err = NoErr /\ el[Root].ActiveView = RouteTokens(res.route)[1])
         ELSE /\ res.op = "match"
              /\ ~res.fn.ok
              /\ res.err = ErrUnauthorized

\* the root owns the parameterized view and the single token of the route
\* is not the name of one of its concrete views
BindsParameter(route) ==
    /\ TokenCount(route) = 1
    /\ VP \in DOMAIN el[Root].AlternateViews
    /\ isViewAuthorized(Root, VP)
    /\ ~\E c \in registered : c.owner = Root /\ c.name = RouteTokens(route)[1] /\ ~c.param

\* the members of view lists of a map of views
FiledMembers(views) == {AllMembers(views)[k] : k \in 1..Len(AllMembers(views))}

EvenRouteError ==
    IF ~hasParameterizedView(Tree, Root).ok THEN ErrNotFound
    ELSE IF ~isViewAuthorized(Root, hasParameterizedView(Tree, Root).param) THEN ErrUnauthorized
    ELSE ErrFrameworkFailure

\* C8, as stated: for every route with an even number of tokens (at least
\* 2), match returns NotFound and no activation closure.
C8_EvenRouteIsNotFound ==
    (res.op = "match" /\ TokenCount(res.route) >= 2 /\ TokenCount(res.route) % 2 = 0)
      => (res.err = ErrNotFound /\ ~res.fn.ok)

\* C8, amended: for every route with an even number of tokens (at least 2),
\* match returns an error and no activation closure, without failing: the
\* error is NotFound when the root owns no parameterized view; when it owns
\* one, the error is Unauthorized if that view is not authorized and
\* FrameworkFailure if the root rnode has no child map for it.
C8_EvenRouteIsAnError ==
    (res.op = "match" /\ TokenCount(res.route) >= 2 /\ TokenCount(res.route) % 2 = 0)
      => /\ panicked = NoPanic
         /\ ~res.fn.ok
         /\ res.err = EvenRouteError
         /\ res.err = ErrFrameworkFailure => ~NextHas(Tree, 1, VP)

\* an even route was refused with an error other than NotFound
C8_Witness ==
    /\ res.op = "match"
    /\ TokenCount(res.route) = 2
    /\ res.err \in {ErrUnauthorized, ErrFrameworkFailure}
    /\ ~res.fn.ok

\* the activations of a chain run one after the other, each on the element
\* of the level it was matched at, up to the first error
RECURSIVE RunPerLevel(_, _)
RunPerLevel(s, acts) ==
    IF s.panic # NoPanic \/ acts = <<>> THEN [s |-> s, err |-> NoErr]
    ELSE Bind(ActivateViewOp(s, s.rn[Head(acts).at].ViewElement, Head(acts).name), LAMBDA a :
             IF a.err # NoErr THEN a
             ELSE Bind(a.s, LAMBDA s1 : RunPerLevel(s1, Tail(acts))))

\* C9: for a route of several levels, match returns the chain of the
\* per-level activations, and invoking the chain runs them in the order
\* they were matched, root to leaf, and stops at the first that returns an
\* error: that error is returned, no later activation runs, the earlier
\* ones stay applied.
C9_ChainStopsAtFirstError ==
    [][/\ (res'.op = "match" /\ TokenCount(res'.route) >= 3 /\ NamesRegisteredPath(res'.route))
          => /\ panicked' = NoPanic
             /\ res'.err = NoErr
             /\ res'.fn.ok
             /\ Len(res'.fn.acts) >= 2
       /\ (res'.op = "invoke" /\ TokenCount(res'.route) >= 3)
          => /\ res'.err = RunPerLevel(Tree, res'.fn.acts).err
             /\ el' = RunPerLevel(Tree, res'.fn.acts).s.el
      ]_vars

----------------------------------------------------------------------------
(* Properties of the route change handler, checked under SpecServe *)

----------------------------------------------------------------------------
(* The navigation history *)

\* the i-th newest logged operation (1 is the newest)
Last(i) == Trail[Len(Trail) - i + 1]

\* C12: in every state a sequence of Push, Back and Forward reaches on a
\* history whose stack is non-empty, 0 <= Cursor < len(Stack): the cursor
\* designates an existing entry.
C12_CursorDesignatesAnEntry ==
    Len(history.Stack) > 0 =>
        (0 <= history.Cursor /\ history.Cursor < Len(history.Stack))

\* C13: after Push(a) immediately followed by Push(b), Back() returns a, and
\* a Forward() issued right after that Back() returns b.
C13_BackThenForward ==
    /\ ( /\ Len(Trail) >= 3
         /\ Last(3).op = "Push" /\ Last(2).op = "Push" /\ Last(1).op = "Back" )
       => (panicked = NoPanic /\ Last(1).ret = Last(3).arg)
    /\ ( /\ Len(Trail) >= 4
         /\ Last(4).op = "Push" /\ Last(3).op = "Push"
         /\ Last(2).op = "Back" /\ Last(1).op = "Forward" )
       => (panicked = NoPanic /\ Last(1).ret = Last(3).arg)

\* the current entry as an operation leaves it: the entry it returned (Back,
\* Forward) or pushed
CurrentAfter(entry) == IF entry.op = "Push" THEN entry.arg ELSE entry.ret

\* C14: after Push(x), x is the last entry, ForwardAllowed() is false, and the
\* entry that was current before the push (the one last returned by Back or
\* Forward, or the last pushed) is the one immediately before x: nothing up to
\* and including the current entry is removed.
C14_PushKeepsTheCurrentEntry ==
    (Len(Trail) >= 2 /\ Last(1).op = "Push") =>
        LET n == Len(history.Stack)
        IN  /\ n >= 2
            /\ history.Stack[n] = Last(1).arg
            /\ ~ForwardAllowed(history)
            /\ history.Stack[n - 1] = CurrentAfter(Last(2))

\* C15: on a non-empty history, Back() when BackAllowed() is false, and
\* Forward() when ForwardAllowed() is false, change neither Cursor nor Stack,
\* return the entry at the cursor and never read outside the stack.
C15_DisallowedMoveIsANoOp ==
    (res.op \in {"Back", "Forward"} /\ ~res.allowed /\ Len(res.before.Stack) > 0) =>
        /\ panicked = NoPanic
        /\ history = res.before
        /\ history.Cursor < Len(history.Stack)
        /\ res.ret = history.Stack[history.Cursor + 1]

----------------------------------------------------------------------------
(* Router.GoTo, GoBack, GoForward, checked under SpecNav *)

\* C16: after GoTo(a) then GoTo(b), GoBack() re-issues the route change
\* request with a, and a following GoForward() re-issues it with b; neither
\* changes the contents of History.Stack; when BackAllowed() or
\* ForwardAllowed() is false they issue no request and change nothing.
C16_BackAndForwardReissue ==
    /\ ( /\ Len(Trail) >= 3
         /\ Last(3).op = "GoTo" /\ Last(2).op = "GoTo" /\ Last(1).op = "GoBack" )
       => (Last(1).issued /\ Last(1).route = Last(3).route)
    /\ ( /\ Len(Trail) >= 4
         /\ Last(4).op = "GoTo" /\ Last(3).op = "GoTo"
         /\ Last(2).op = "GoBack" /\ Last(1).op = "GoForward" )
       => (Last(1).issued /\ Last(1).route = Last(3).route)
    /\ res.op \in {"GoBack", "GoForward"} =>
          /\ history.Stack = res.before.Stack
          /\ ~res.allowed =>
                (~res.issued /\ history = res.before /\ nav = res.navbefore)

----------------------------------------------------------------------------
(* Router.OnNotfound, checked under SpecFallback *)

\* the route's first token names no view of the root, and the root has no
\* parameterized view: the route matches no registered route
Unmatched(route) ==
    /\ Len(route) > 0
    /\ TokenCount(route) >= 1
    /\ ~\E c \in registered :
          c.owner = Root /\ (c.param \/ c.name = RouteTokens(route)[1])

\* C11: when a not-found view has been registered with OnNotfound(dest) and
\* a route change request is made for a route that matches no registered
\* route, a GoTo toward dest's route is issued.  Element.Set runs its
\* watchers before it returns, so the GoTo is issued by the time the request
\* has been handled, or never.
C11_UnmatchedRouteGoesToNotFound ==
    ( /\ res.op = "routechange"
      /\ res.payload.str
      /\ nav.onnotfound.ok
      /\ Unmatched(res.payload.route)
      /\ panicked = NoPanic )
    => res.goto = [ok |-> TRUE, v |-> <<Slash>> \o nav.onnotfound.v]

----------------------------------------------------------------------------
(* Properties of the element tree, checked under SpecDom *)

\* the last operation detached an element that had a parent
DetachedOne == res.op \in {"RemoveChild", "ReplaceChild"} /\ res.hadparent

\* C17: after detach(e) on an element e that has a parent, e.Parent is nil,
\* e is its own subtree root, and Detached() is true and Route() is the empty
\* string for e and for every element of its subtree (its active children
\* recursively and the members of its alternate views).
C17_DetachedSubtree ==
    DetachedOne =>
        /\ panicked = NoPanic
        /\ el[res.detached].Parent = Nil
        /\ el[res.detached].subtreeRoot = res.detached
        /\ \A x \in SubtreeOf(Tree, res.detached) :
              /\ Detached(Tree, x)
              /\ Route(Tree, x) = [v |-> <<>>, panic |-> NoPanic]

\* C19: after any sequence of AppendChild, Prepend, InsertChild,
\* ReplaceChild, RemoveChild, RemoveChildren and ActivateView, parent links
\* and children lists agree: c is in p.Children if and only if c.Parent is p.
C19_ParentsAndChildrenAgree ==
    panicked = NoPanic =>
        \A p, c \in Elems : (c \in Listed(el[p].Children)) <=> (el[c].Parent = p)

\* the ancestors of e from the top of its subtree down to its parent, read
\* off the parent links (k bounds the climb)
RECURSIVE AncestorChain(_, _)
AncestorChain(e, k) ==
    IF el[e].Parent = Nil \/ k = 0 THEN <<>>
    ELSE Append(AncestorChain(el[e].Parent, k - 1), el[e].Parent)

\* C20: after any sequence of attach and detach operations, the ancestor
\* path of every element that has a parent is exactly the chain of its
\* ancestors from the top of its subtree down to its parent: each ancestor
\* once, in order, and no other element.
C20_PathIsTheAncestorChain ==
    panicked = NoPanic =>
        \A e \in Elems :
            el[e].Parent # Nil => el[e].path = AncestorChain(e, Cardinality(Elems))

\* the view nodes of x's ViewAccessPath, and whether the pointer is nil
ViewNodesOf(s, x) ==
    IF s.el[x].ViewAccessPath = Nil
    THEN [nil |-> TRUE, nodes |-> <<>>]
    ELSE [nil |-> FALSE, nodes |-> s.vn[s.el[x].ViewAccessPath]]

\* nothing in the subtree of e comes from an attachment under p
NeverUnder(s, e, p) ==
    /\ e \notin Listed(s.el[p].Children)
    /\ \A x \in SubtreeOf(s, e) :
          /\ p \notin Listed(s.el[x].path)
          /\ \A i \in 1..Len(ViewNodesOf(s, x).nodes) : ViewNodesOf(s, x).nodes[i].Element # p

\* the subtree of e reads the same in the trees A and B
SameSubtree(s, e, A, B) ==
    \A x \in SubtreeOf(s, e) :
        /\ A.el[x].path = B.el[x].path
        /\ ViewNodesOf(A, x) = ViewNodesOf(B, x)
        /\ Route(A, x) = Route(B, x)

\* e appended to q at once, and e appended to p, removed from p, then
\* appended to q
Direct(s, q, e) == AppendChild(s, q, e)

Detour(s, p, q, e) ==
    Bind(AppendChild(s, p, e), LAMBDA s1 :
    Bind(RemoveChild(s1, p, e), LAMBDA s2 :
    AppendChild(s2, q, e)))

\* C18: if an element e is removed from a parent p and then appended to an
\* attached element q, then for e and each of its descendants the
\* ViewAccessPath, the ancestor path and Route() are the same as those of an
\* identical subtree that was never attached to p and is appended to q.
C18_ReattachedLikeFresh ==
    panicked = NoPanic =>
        \A e \in DomElems, p \in Elems, q \in DomElems :
            ( /\ p # q
              /\ q = Root \/ (el[q].Parent # Nil /\ ~Detached(Tree, q))
              /\ Attachable(p, e) /\ Attachable(q, e)
              /\ NeverUnder(Tree, e, p)
              /\ Direct(Tree, q, e).panic = NoPanic
              /\ Detour(Tree, p, q, e).panic = NoPanic )
            => SameSubtree(Tree, e, Direct(Tree, q, e), Detour(Tree, p, q, e))

----------------------------------------------------------------------------
(* Properties of Element.AddView, checked under SpecTree *)

\* the view the last AddView added
AddedView == CHOOSE v \in Catalogue : v.owner = res.e /\ v.name = res.name

\* the elements that own the entries of a list of view nodes
NodeOwners(nodes) == [i \in 1..Len(nodes) |-> nodes[i].Element]

\* no element occurs twice in list
NoRepeat(list) == \A i, j \in 1..Len(list) : list[i] = list[j] => i = j

\* C21: after e.AddView(v), the ViewAccessPath of each member c of v is e's
\* ViewAccessPath followed by the pair (e, v) (the members of the model's
\* views have no entry of their own before they are added); and in every
\* ViewAccessPath of the tree each owning element appears at most once.
C21_ViewAccessPathOfMembers ==
    panicked = NoPanic =>
        /\ res.op = "AddView" =>
              \A i \in 1..Len(AddedView.elements) :
                  /\ ~ViewNodesOf(Tree, AddedView.elements[i]).nil
                  /\ ViewNodesOf(Tree, AddedView.elements[i]).nodes
                       = ViewNodesOf(Tree, res.e).nodes \o <<newViewNode(res.e, AddedView)>>
        /\ \A x \in Elems : NoRepeat(NodeOwners(ViewNodesOf(Tree, x).nodes))

----------------------------------------------------------------------------
(* Properties of rnode.match and rnode.insert, checked under SpecMatch *)

\* the last operation was match on a route of several levels
MatchedLevels == res.op = "match" /\ TokenCount(res.route) >= 3 /\ TokenCount(res.route) % 2 = 1

\* C22: for a route with an odd number n >= 3 of tokens, match pairs each
\* element ID with the view name that follows it (IDs from t1, t3, ...,
\* view names from t2, t4, ...) and never reads a token at an index >= n:
\* it returns, with a chain or with an error, without an index out of range.
C22_PairsAreReadInRange ==
    MatchedLevels => panicked = NoPanic

\* C23: for a successfully matched route with n >= 3 tokens (one that names
\* registered views and elements along one path), the returned chain has one
\* activation for every view-name token, (n+1)/2 of them, and the first one
\* targets the root element.
C23_ChainStartsAtTheRoot ==
    (MatchedLevels /\ NamesRegisteredPath(res.route))
      => /\ res.fn.ok
         /\ Len(res.fn.acts) = (TokenCount(res.route) + 1) \div 2
         /\ rnodes[res.fn.acts[1].at].ViewElement = Root

\* C24: in the chain built for a multi-token route, the activation appended
\* for the i-th (elementID, viewName) pair runs ActivateView on the element
\* resolved for that pair, not on the element resolved at a later level
\* (which is the one the shared variable r holds when the chain runs).
C24_ActivationsKeepTheirElement ==
    (MatchedLevels /\ NamesRegisteredPath(res.route))
      => /\ res.fn.ok
         /\ Len(res.fn.acts) >= 2
         /\ \A i \in 1..Len(res.fn.acts) :
               rnodes[res.fn.r].ViewElement = rnodes[res.fn.acts[i].at].ViewElement
                 => i = Len(res.fn.acts)

\* C25: match strips the leading separator and splits the route into tokens
\* that contain no separator: the keys it looks up are the view names and
\* element IDs themselves, as insert registers them.
C25_TokensHoldNoSeparator ==
    res.op = "match" =>
        SplitAfter(TrimPrefix(res.route, <<Slash>>), Slash) = RouteTokens(res.route)

\* C26: for a single-token route whose token names no view of the root (no
\* trie entry, no view of that name, no parameterized view), match returns
\* NotFound and no activation closure.
C26_UnknownTokenIsNotFound ==
    (res.op = "match" /\ TokenCount(res.route) = 1 /\ Unmatched(res.route))
      => (res.err = ErrNotFound /\ ~res.fn.ok)

\* C28: inserting a view-owning element whose ViewAccessPath starts at the
\* trie's root element completes without a runtime failure and registers
\* the element; every rnode has a child map that attach can store into.
C28_InsertCompletes ==
    (res.op = "insert" /\ StartsAtRoot(res.e))
      => /\ panicked = NoPanic
         /\ \A n \in 1..Len(rnodes) : ~rnodes[n].next.nil
         /\ \E n \in 2..Len(rnodes) : rnodes[n].ViewElement = res.e

----------------------------------------------------------------------------
(* Element.ActivateView on the active view, checked under SpecTree *)

\* the concrete view name is the one e displays
IsActiveView(e, name) ==
    /\ el[e].ActiveView = name
    /\ GetUI(Tree, e) = [ok |-> TRUE, v |-> name]

\* C30: ActivateView(name) on an element whose currently active concrete
\* view is already name returns no error and leaves Children,
\* AlternateViews and ActiveView unchanged, also when the element owns a
\* parameterized view.
C30_ActivateActiveViewIsIdempotent ==
    [][(res'.op = "ActivateView" /\ IsActiveView(res'.e, res'.name))
         => /\ panicked' = NoPanic
            /\ res'.err = NoErr
            /\ el'[res'.e].Children = el[res'.e].Children
            /\ el'[res'.e].AlternateViews = el[res'.e].AlternateViews
            /\ el'[res'.e].ActiveView = el[res'.e].ActiveView
      ]_vars

----------------------------------------------------------------------------
(* Router.OnUnauthorized, checked under SpecUnauthorized *)

\* C29: with a fallback view registered through OnUnauthorized and the
\* route change handler installed by ListenAndServe, every GoTo(route)
\* terminates: the cascade of request, failed match or activation,
\* "unauthorized" signal and fallback GoTo ends after finitely many steps,
\* including when the fallback view's own activation fails.
C29_GoToTerminates ==
    (res.op = "GoTo" /\ serving /\ nav.onunauthorized.ok) => panicked # "stack overflow"

----------------------------------------------------------------------------
(* Element.DispatchEvent, checked under SpecEvent *)

\* the handlers of e with the given Capture flag, each with its element
HandlersAt(e, capture) ==
    LET kept == SelectSeq(el[e].OnEvent.v, LAMBDA h : h.Capture = capture)
    IN  [k \in 1..Len(kept) |-> <<e, kept[k]>>]

RECURSIVE HandlersAlong(_, _)
HandlersAlong(list, capture) ==
    IF list = <<>> THEN <<>>
    ELSE HandlersAt(Head(list), capture) \o HandlersAlong(Tail(list), capture)

\* capture handlers of the ancestors from the root down, the target's
\* handlers, then for a bubbling event the other handlers of the ancestors
\* from the parent up
ThreePhases(e, bubbles) ==
    HandlersAlong(el[e].path, TRUE)
      \o [k \in 1..Len(el[e].OnEvent.v) |-> <<e, el[e].OnEvent.v[k]>>]
      \o (IF bubbles THEN HandlersAlong(Reverse(el[e].path), FALSE) ELSE <<>>)

\* the handlers up to the first that reports done or stops the event
RECURSIVE UntilEnded(_)
UntilEnded(list) ==
    IF list = <<>> THEN <<>>
    ELSE IF Head(list)[2].does # "pass" THEN <<Head(list)>>
    ELSE <<Head(list)>> \o UntilEnded(Tail(list))

\* C27: DispatchEvent on an attached element runs the capture handlers of
\* the ancestors from the root to the parent, then the target's handlers,
\* then, if the event bubbles, the non-capture handlers of the ancestors
\* from the parent to the root; an ancestor without handlers for the
\* event's type does not stop the event; after a handler that reports done
\* or stops the event no further handler runs.
C27_DispatchInThreePhases ==
    (res.op = "DispatchEvent" /\ ~Detached(Tree, res.e))
        => res.ran = UntilEnded(ThreePhases(res.e, res.bubbles))

----------------------------------------------------------------------------
(* The frame of Element.ActivateView, checked under SpecTree *)

\* C31: ActivateView on an element e changes the ActiveView of e only: the
\* ActiveView of every other element, the outgoing children filed again in
\* e's AlternateViews included, is after the call what it was before.
C31_ActivateViewKeepsOtherActiveViews ==
    [][res'.op = "ActivateView"
          => \A x \in Elems \ {res'.e} : el'[x].ActiveView = el[x].ActiveView
      ]_vars

----------------------------------------------------------------------------
(* The frame of a failed match, checked under SpecMatch *)

\* C32: a call to match that returns an error (NotFound, Unauthorized or
\* FrameworkFailure) has no side effect: no element's navigation
\* parameter value and no other element or trie state differs from what
\* it was before the call.
C32_FailedMatchChangesNothing ==
    [][(res'.op = "match" /\ panicked' = NoPanic
          /\ res'.err \in {ErrNotFound, ErrUnauthorized, ErrFrameworkFailure})
          => el' = el /\ vn' = vn /\ rnodes' = rnodes
      ]_vars

============================================================================
